---- MODULE Spec2Model ----
(***************************************************************************)
(* Model of scripts/generate_device_config.py: the generator of            *)
(* sphere-agent-config.json files (environment loading, record synthesis,  *)
(* validation, batch driver and file naming).                              *)
(***************************************************************************)
EXTENDS Integers, Sequences, FiniteSets, TLC

VARIABLES
    args,         \* the parsed command line (argparse namespace)
    pc,           \* position of main()
    env_exists,   \* whether environments/<env>.json exists
    env_config,   \* the loaded environment document
    schema_loaded,\* whether load_schema() has returned
    schema,       \* the loaded schema document ({} when the file is missing)
    dir_created,  \* whether output_dir.mkdir() has run
    i,            \* loop offset of the batch loop
    generated,    \* the counter printed in the summary
    units,        \* history: one entry per unit that reached validate_config
    writes,       \* history: one entry per json.dump to a file
    files,        \* the output directory: file name -> record
    exit_status,  \* -1 while running, else the process exit status
    stderr,       \* what was reported on the error stream
    call,         \* the arguments of a direct call of a pure function
    ret           \* its result

vars == <<args, pc, env_exists, env_config, schema_loaded, schema, dir_created,
          i, generated, units, writes, files, exit_status, stderr, call, ret>>

mainVars == <<args, pc, env_exists, env_config, schema_loaded, schema, dir_created,
              i, generated, units, writes, files, exit_status, stderr>>

-----------------------------------------------------------------------------
(* JSON / Python values.  Every value is a record of the same shape so that *)
(* values of different Python types can be compared.                       *)

EmptyDict == [k \in {} |-> 0]

None == [t |-> "null", s |-> "", n |-> 0, b |-> FALSE, o |-> EmptyDict]

PyStr(x) == [t |-> "str", s |-> x, n |-> 0, b |-> FALSE, o |-> EmptyDict]

PyInt(k) == [t |-> "int", s |-> "", n |-> k, b |-> FALSE, o |-> EmptyDict]

PyBool(x) == [t |-> "bool", s |-> "", n |-> 0, b |-> x, o |-> EmptyDict]

PyDict(m) == [t |-> "dict", s |-> "", n |-> 0, b |-> FALSE, o |-> m]

\* Python truth value testing (`if key`, `a or b`, `if workstation_id`).
Truthy(v) ==
    CASE v.t = "null" -> FALSE
      [] v.t = "str"  -> v.s # ""
      [] v.t = "int"  -> v.n # 0
      [] v.t = "bool" -> v.b
      [] v.t = "dict" -> DOMAIN v.o # {}

\* Python `a or b`.
Or(a, b) == IF Truthy(a) THEN a ELSE b

\* dict.get(key, default)
Get(d, k, default) == IF k \in DOMAIN d THEN d[k] ELSE default

\* str.startswith(prefix)
StartsWith(x, prefix) ==
    /\ Len(x) >= Len(prefix)
    /\ SubSeq(x, 1, Len(prefix)) = prefix

\* the slice x[:k]
Prefix(x, k) == IF Len(x) <= k THEN x ELSE SubSeq(x, 1, k)

-----------------------------------------------------------------------------
(* Integer formatting: format(n, "03d").                                   *)

DigitChar(d) == SubSeq("0123456789", d + 1, d + 1)

RECURSIVE Digits(_)
Digits(n) == IF n < 10 THEN DigitChar(n) ELSE Digits(n \div 10) \o DigitChar(n % 10)

RECURSIVE ZeroPad(_, _)
ZeroPad(x, width) == IF Len(x) >= width THEN x ELSE ZeroPad("0" \o x, width)

FormatWidth == 3

\* sign-aware zero padding to a minimum width of three characters
Format03d(n) ==
    IF n >= 0 THEN ZeroPad(Digits(n), FormatWidth)
    ELSE "-" \o ZeroPad(Digits(-n), FormatWidth - 1)

-----------------------------------------------------------------------------
(* validate_config                                                         *)

CredentialPrefix == "sphr_"

PreviewLen == 10

RequiredError(field) == [kind |-> "required", arg |-> field]

FormatError(key) == [kind |-> "format", arg |-> Prefix(key, PreviewLen)]

\* variant: the `is None` test dropped
FieldMissing_NoNullCheck(config, field) == field \notin DOMAIN config

\* `field not in config or config[field] is None`
FieldMissing(config, field) == field \notin DOMAIN config \/ config[field] = None

\* variant: the loop breaks at the first missing field
RECURSIVE RequiredErrors_StopAtFirst(_, _)
RequiredErrors_StopAtFirst(config, required) ==
    IF required = <<>> THEN <<>>
    ELSE IF FieldMissing(config, Head(required))
         THEN <<RequiredError(Head(required))>>
         ELSE RequiredErrors_StopAtFirst(config, Tail(required))

\* the loop over schema.get("required", [])
RECURSIVE RequiredErrors(_, _)
RequiredErrors(config, required) ==
    IF required = <<>> THEN <<>>
    ELSE (IF FieldMissing(config, Head(required))
          THEN <<RequiredError(Head(required))>> ELSE <<>>)
         \o RequiredErrors(config, Tail(required))

CredentialOf(config) == Get(config, "enrollment_api_key", PyStr(""))

\* key.startswith on a truthy value that is no string raises AttributeError
ValidateRaises(config) ==
    /\ Truthy(CredentialOf(config))
    /\ CredentialOf(config).t # "str"

\* variant: the prefix test written without the underscore
CredentialErrors_ShortPrefix(config) ==
    IF /\ Truthy(CredentialOf(config))
       /\ ~StartsWith(CredentialOf(config).s, "sphr")
    THEN <<FormatError(CredentialOf(config).s)>>
    ELSE <<>>

CredentialErrors(config) ==
    IF /\ Truthy(CredentialOf(config))
       /\ ~StartsWith(CredentialOf(config).s, CredentialPrefix)
    THEN <<FormatError(CredentialOf(config).s)>>
    ELSE <<>>

validate_config(config, schema_doc) ==
    RequiredErrors(config, Get(schema_doc, "required", <<>>))
        \o CredentialErrors(config)

-----------------------------------------------------------------------------
(* generate_single_config                                                  *)

DefaultWsPath == "/ws/android"

DefaultEnvironment == "production"

DefaultPollInterval == 86400

FeatureFlags == {"telemetry_enabled", "streaming_enabled", "ota_enabled", "auto_register"}

DefaultFeatures == PyDict([k \in FeatureFlags |-> PyBool(TRUE)])

CopiedKeys == {"config_version", "server_url", "enrollment_api_key"}

ConfigKeys ==
    CopiedKeys \cup {"ws_path", "device_id", "workstation_id", "instance_index",
                     "location", "environment", "config_poll_interval_seconds",
                     "features", "meta"}

\* env_config["config_version"], ["server_url"], ["enrollment_api_key"] raise
\* KeyError when the environment document has no such key
GenerateRaises(env) == ~(CopiedKeys \subseteq DOMAIN env)

\* config["meta"] after the two trailing `if` statements
MetaOf(workstation_id, instance_index, ldplayer_name) ==
    [k \in (IF Truthy(ldplayer_name) THEN {"ldplayer_name"} ELSE {})
           \cup (IF Truthy(workstation_id) /\ instance_index # None
                 THEN {"clone_source"} ELSE {})
       |-> IF k = "ldplayer_name" THEN ldplayer_name ELSE PyStr("auto-generated")]

\* `location or env_config.get("location")`
LocationOf(env, location) == Or(location, Get(env, "location", None))

\* variant: defaults written as `env_config.get(k) or default`
generate_single_config_OrDefault(env, workstation_id, instance_index, location, ldplayer_name) ==
    [k \in ConfigKeys |->
        CASE k \in CopiedKeys -> env[k]
          [] k = "ws_path" -> Or(Get(env, "ws_path", None), PyStr(DefaultWsPath))
          [] k = "device_id" -> None
          [] k = "workstation_id" -> workstation_id
          [] k = "instance_index" -> instance_index
          [] k = "location" -> LocationOf(env, location)
          [] k = "environment" ->
                Or(Get(env, "environment", None), PyStr(DefaultEnvironment))
          [] k = "config_poll_interval_seconds" ->
                Or(Get(env, "config_poll_interval_seconds", None),
                   PyInt(DefaultPollInterval))
          [] k = "features" -> Or(Get(env, "features", None), DefaultFeatures)
          [] k = "meta" -> PyDict(MetaOf(workstation_id, instance_index, ldplayer_name))]

\* variant: the index stored as `instance_index or None`
generate_single_config_FalsyIndex(env, workstation_id, instance_index, location, ldplayer_name) ==
    [k \in ConfigKeys |->
        CASE k \in CopiedKeys -> env[k]
          [] k = "ws_path" -> Get(env, "ws_path", PyStr(DefaultWsPath))
          [] k = "device_id" -> None
          [] k = "workstation_id" -> workstation_id
          [] k = "instance_index" -> Or(instance_index, None)
          [] k = "location" -> LocationOf(env, location)
          [] k = "environment" -> Get(env, "environment", PyStr(DefaultEnvironment))
          [] k = "config_poll_interval_seconds" ->
                Get(env, "config_poll_interval_seconds", PyInt(DefaultPollInterval))
          [] k = "features" -> Get(env, "features", DefaultFeatures)
          [] k = "meta" -> PyDict(MetaOf(workstation_id, instance_index, ldplayer_name))]

generate_single_config(env, workstation_id, instance_index, location, ldplayer_name) ==
    [k \in ConfigKeys |->
        CASE k \in CopiedKeys -> env[k]
          [] k = "ws_path" -> Get(env, "ws_path", PyStr(DefaultWsPath))
          [] k = "device_id" -> None
          [] k = "workstation_id" -> workstation_id
          [] k = "instance_index" -> instance_index
          [] k = "location" -> LocationOf(env, location)
          [] k = "environment" -> Get(env, "environment", PyStr(DefaultEnvironment))
          [] k = "config_poll_interval_seconds" ->
                Get(env, "config_poll_interval_seconds", PyInt(DefaultPollInterval))
          [] k = "features" -> Get(env, "features", DefaultFeatures)
          [] k = "meta" -> PyDict(MetaOf(workstation_id, instance_index, ldplayer_name))]

-----------------------------------------------------------------------------
(* main: the per-unit computations of the batch loop                       *)

DefaultFileName == "sphere-agent-config.json"

FileStem == "sphere-agent-config-"

\* variant: the loop offset is not added
UnitIndex_NoOffset(a, k) ==
    IF Truthy(a.workstation_id) THEN PyInt(a.start_index) ELSE a.instance_index

\* idx = args.start_index + i if args.workstation_id else args.instance_index
UnitIndex(a, k) ==
    IF Truthy(a.workstation_id) THEN PyInt(a.start_index + k) ELSE a.instance_index

\* f"Farm-{idx:03d}" is evaluated only when count > 1 and no name was given;
\* formatting None with "03d" raises TypeError
NameRaises(a, k) ==
    /\ a.count > 1
    /\ ~Truthy(a.ldplayer_name)
    /\ UnitIndex(a, k) = None

UnitName(a, k) ==
    IF a.count > 1 /\ ~Truthy(a.ldplayer_name)
    THEN PyStr("Farm-" \o Format03d(UnitIndex(a, k).n))
    ELSE a.ldplayer_name

UnitConfig(a, env, k) ==
    generate_single_config(env, a.workstation_id, UnitIndex(a, k), a.location,
                           UnitName(a, k))

\* f"sphere-agent-config-{idx:03d}.json" raises TypeError when idx is None
FileNameRaises(a, k) == a.count # 1 /\ UnitIndex(a, k) = None

\* variant: the suffix is the loop offset, not the instance index
FileName_LoopOffset(a, k) ==
    IF a.count = 1
    THEN Or(a.output_file, PyStr(DefaultFileName)).s
    ELSE FileStem \o Format03d(k) \o ".json"

FileName(a, k) ==
    IF a.count = 1
    THEN Or(a.output_file, PyStr(DefaultFileName)).s
    ELSE FileStem \o Format03d(UnitIndex(a, k).n) \o ".json"

\* the exception, if any, that ends the loop body before validate_config returns
RaisesBeforeVerdict(a, env, k) ==
    IF NameRaises(a, k) THEN TRUE
    ELSE IF GenerateRaises(env) THEN TRUE
    ELSE ValidateRaises(UnitConfig(a, env, k))

-----------------------------------------------------------------------------
(* Inputs: command lines, environment documents, schema documents          *)

MaxCount == 3

MaxRequired == 2

\* marks a key that a document does not have
Absent == [t |-> "absent", s |-> "", n |-> 0, b |-> FALSE, o |-> EmptyDict]

WithField(d, k, v) == IF v = Absent THEN d ELSE (k :> v) @@ d

Counts == 0 .. MaxCount

StartIndexes == {-1, 0, 998}

WorkstationIds == {None, PyStr(""), PyStr("ws-PC-FARM-01")}

InstanceIndexes == {None, PyInt(9)}

Locations == {None, PyStr("msk-office-1")}

LdplayerNames == {None, PyStr("LD-1")}

OutputFiles == {None, PyStr(""), PyStr("custom.json")}

ArgSpace ==
    [count : Counts, start_index : StartIndexes, workstation_id : WorkstationIds,
     instance_index : InstanceIndexes, location : Locations,
     ldplayer_name : LdplayerNames, output_file : OutputFiles]

BaseEnv ==
    [k \in {"config_version", "server_url"} |->
        IF k = "config_version" THEN PyInt(1) ELSE PyStr("https://sphere.example")]

CustomFeatures == PyDict([k \in {"telemetry_enabled"} |-> PyBool(FALSE)])

OptionalEnv ==
    [k \in {"ws_path", "location", "environment", "config_poll_interval_seconds",
            "features"} |->
        CASE k = "ws_path" -> PyStr("/ws/custom")
          [] k = "location" -> PyStr("fra-dc-2")
          [] k = "environment" -> PyStr("staging")
          [] k = "config_poll_interval_seconds" -> PyInt(60)
          [] k = "features" -> CustomFeatures]

\* credentials of an environment document: none, null, empty, well-formed,
\* malformed (longer than the preview), and a value that is no string
Credentials ==
    {Absent, None, PyStr(""), PyStr("sphr_dev_key"), PyStr("badkey_0123456789"),
     PyInt(5)}

EnvDocs ==
    {WithField(base, "enrollment_api_key", c) :
        base \in {BaseEnv, OptionalEnv @@ BaseEnv}, c \in Credentials}

SchemaDocs ==
    { EmptyDict,
      [required |-> <<>>],
      [required |-> <<"instance_index">>],
      [required |-> <<"location", "instance_index">>],
      [required |-> <<"config_version", "device_id">>] }

-----------------------------------------------------------------------------
(* main                                                                    *)

NoReport == [kind |-> "none", unit |-> -1, errors |-> <<>>]

NoCall == [fn |-> "none"]

NoRet == [status |-> "none", value |-> EmptyDict]

Init ==
    /\ args \in ArgSpace
    /\ env_exists \in BOOLEAN
    /\ pc = "load_environment"
    /\ env_config = EmptyDict
    /\ schema_loaded = FALSE
    /\ schema = EmptyDict
    /\ dir_created = FALSE
    /\ i = 0
    /\ generated = 0
    /\ units = <<>>
    /\ writes = <<>>
    /\ files = EmptyDict
    /\ exit_status = -1
    /\ stderr = NoReport
    /\ call = NoCall
    /\ ret = NoRet

\* variant: a missing environment falls back to a built-in document
LoadEnvironmentMissing_Fallback ==
    /\ pc = "load_environment"
    /\ ~env_exists
    /\ env_config' = WithField(BaseEnv, "enrollment_api_key", PyStr("sphr_dev_key"))
    /\ pc' = "load_schema"
    /\ UNCHANGED <<args, env_exists, schema_loaded, schema, dir_created, i, generated,
                   units, writes, files, exit_status, stderr, call, ret>>

\* load_environment when the file does not exist: report and sys.exit(1)
LoadEnvironmentMissing ==
    /\ pc = "load_environment"
    /\ ~env_exists
    /\ stderr' = [kind |-> "env_not_found", unit |-> -1, errors |-> <<>>]
    /\ exit_status' = 1
    /\ pc' = "exited"
    /\ UNCHANGED <<args, env_exists, env_config, schema_loaded, schema, dir_created,
                   i, generated, units, writes, files, call, ret>>

\* load_environment when the file exists: json.load of its content
LoadEnvironment ==
    /\ pc = "load_environment"
    /\ env_exists
    /\ \E doc \in EnvDocs : env_config' = doc
    /\ pc' = "load_schema"
    /\ UNCHANGED <<args, env_exists, schema_loaded, schema, dir_created, i, generated,
                   units, writes, files, exit_status, stderr, call, ret>>

\* load_schema: {} when schema.json does not exist, else its content
LoadSchema ==
    /\ pc = "load_schema"
    /\ \E exists \in BOOLEAN, doc \in SchemaDocs :
          schema' = IF exists THEN doc ELSE EmptyDict
    /\ schema_loaded' = TRUE
    /\ pc' = "mkdir"
    /\ UNCHANGED <<args, env_exists, env_config, dir_created, i, generated, units,
                   writes, files, exit_status, stderr, call, ret>>

\* output_dir.mkdir(parents=True, exist_ok=True); generated = 0
MakeOutputDir ==
    /\ pc = "mkdir"
    /\ dir_created' = TRUE
    /\ generated' = 0
    /\ i' = 0
    /\ pc' = "loop"
    /\ UNCHANGED <<args, env_exists, env_config, schema_loaded, schema, units, writes,
                   files, exit_status, stderr, call, ret>>

UnitEntry(k) ==
    [unit |-> k,
     idx |-> UnitIndex(args, k),
     config |-> UnitConfig(args, env_config, k),
     errors |-> validate_config(UnitConfig(args, env_config, k), schema)]

\* a loop body that ends with an uncaught exception before validation returns
UnitRaises ==
    /\ pc = "loop"
    /\ i < args.count
    /\ RaisesBeforeVerdict(args, env_config, i)
    /\ stderr' = [kind |-> "traceback", unit |-> i, errors |-> <<>>]
    /\ exit_status' = 1
    /\ pc' = "crashed"
    /\ UNCHANGED <<args, env_exists, env_config, schema_loaded, schema, dir_created,
                   i, generated, units, writes, files, call, ret>>

\* variant: the errors are reported but sys.exit(1) is missing
UnitInvalid_NoExit ==
    /\ pc = "loop"
    /\ i < args.count
    /\ ~RaisesBeforeVerdict(args, env_config, i)
    /\ UnitEntry(i).errors # <<>>
    /\ units' = Append(units, UnitEntry(i))
    /\ stderr' = [kind |-> "validation", unit |-> i, errors |-> UnitEntry(i).errors]
    /\ i' = i + 1
    /\ UNCHANGED <<args, pc, env_exists, env_config, schema_loaded, schema,
                   dir_created, generated, writes, files, exit_status, call, ret>>

\* a loop body whose record fails validation: report the errors, sys.exit(1)
UnitInvalid ==
    /\ pc = "loop"
    /\ i < args.count
    /\ ~RaisesBeforeVerdict(args, env_config, i)
    /\ UnitEntry(i).errors # <<>>
    /\ units' = Append(units, UnitEntry(i))
    /\ stderr' = [kind |-> "validation", unit |-> i, errors |-> UnitEntry(i).errors]
    /\ exit_status' = 1
    /\ pc' = "exited"
    /\ UNCHANGED <<args, env_exists, env_config, schema_loaded, schema, dir_created,
                   i, generated, writes, files, call, ret>>

\* a loop body whose record is valid but whose file name cannot be formatted
UnitFileNameRaises ==
    /\ pc = "loop"
    /\ i < args.count
    /\ ~RaisesBeforeVerdict(args, env_config, i)
    /\ UnitEntry(i).errors = <<>>
    /\ FileNameRaises(args, i)
    /\ units' = Append(units, UnitEntry(i))
    /\ stderr' = [kind |-> "traceback", unit |-> i, errors |-> <<>>]
    /\ exit_status' = 1
    /\ pc' = "crashed"
    /\ UNCHANGED <<args, env_exists, env_config, schema_loaded, schema, dir_created,
                   i, generated, writes, files, call, ret>>

\* a loop body that runs to its end: the record is written and counted
UnitWritten ==
    /\ pc = "loop"
    /\ i < args.count
    /\ ~RaisesBeforeVerdict(args, env_config, i)
    /\ UnitEntry(i).errors = <<>>
    /\ ~FileNameRaises(args, i)
    /\ units' = Append(units, UnitEntry(i))
    /\ writes' = Append(writes, [unit |-> i, filename |-> FileName(args, i),
                                 config |-> UnitEntry(i).config])
    /\ files' = (FileName(args, i) :> UnitEntry(i).config) @@ files
    /\ generated' = generated + 1
    /\ i' = i + 1
    /\ UNCHANGED <<args, pc, env_exists, env_config, schema_loaded, schema,
                   dir_created, exit_status, stderr, call, ret>>

\* the loop is over: print the summary and return
Finish ==
    /\ pc = "loop"
    /\ i >= args.count
    /\ pc' = "done"
    /\ exit_status' = 0
    /\ UNCHANGED <<args, env_exists, env_config, schema_loaded, schema, dir_created,
                   i, generated, units, writes, files, stderr, call, ret>>

Next ==
    \/ LoadEnvironmentMissing
    \/ LoadEnvironment
    \/ LoadSchema
    \/ MakeOutputDir
    \/ UnitRaises
    \/ UnitInvalid
    \/ UnitFileNameRaises
    \/ UnitWritten
    \/ Finish

Spec == Init /\ [][Next]_vars

-----------------------------------------------------------------------------
(* Properties of main                                                      *)

RequiredOf(schema_doc) == Get(schema_doc, "required", <<>>)

\* the two record invariants of the data model
RecordInvariants(config, schema_doc) ==
    /\ \A r \in 1 .. Len(RequiredOf(schema_doc)) :
          /\ RequiredOf(schema_doc)[r] \in DOMAIN config
          /\ config[RequiredOf(schema_doc)[r]] # None
    /\ LET key == config["enrollment_api_key"] IN
          (key # None /\ key # PyStr("")) =>
              /\ key.t = "str"
              /\ Len(key.s) >= 5
              /\ SubSeq(key.s, 1, 5) = "sphr_"

\* C1: every record written to a file satisfies both record invariants when it
\* is written (required fields present and non-null, a non-empty credential
\* begins with sphr_), and no record with a non-empty error list is written.
C1_WrittenRecordsValid ==
    /\ \A w \in 1 .. Len(writes) :
          /\ RecordInvariants(writes[w].config, schema)
          /\ \E u \in 1 .. Len(units) :
                /\ units[u].unit = writes[w].unit
                /\ units[u].config = writes[w].config
                /\ units[u].errors = <<>>
    /\ \A f \in DOMAIN files : RecordInvariants(files[f], schema)

C1_Witness ==
    /\ Len(writes) >= 2
    /\ Len(RequiredOf(schema)) >= 2
    /\ Truthy(writes[2].config["enrollment_api_key"])

SomeUnitFailedValidation == \E u \in 1 .. Len(units) : units[u].errors # <<>>

\* C2: in a run in which some unit fails validation the process ends with exit
\* status 1 and the run has written no file: not for the failing unit, not for
\* an earlier one, not for a later one.
C2_AllOrNothing ==
    SomeUnitFailedValidation =>
        /\ pc = "exited"
        /\ exit_status = 1
        /\ stderr.kind = "validation"
        /\ writes = <<>>
        /\ DOMAIN files = {}
        /\ generated = 0

C2_Witness ==
    /\ SomeUnitFailedValidation
    /\ args.count = MaxCount
    /\ pc = "exited"

\* C3: the file names chosen for two different units of a run differ, so a run
\* that ends with status 0 and reports n generated configs leaves n files.
C3_FileNamesCollisionFree ==
    /\ \A v, w \in 1 .. Len(writes) :
          v # w => writes[v].filename # writes[w].filename
    /\ (pc = "done" /\ exit_status = 0) => Cardinality(DOMAIN files) = generated

\* a workstation identifier is supplied: the option is given and names one
WorkstationSupplied == args.workstation_id # None /\ args.workstation_id # PyStr("")

PaddedIndex(n) ==
    CASE n = -1 -> "-01" [] n = 0 -> "000" [] n = 1 -> "001" [] n = 2 -> "002"
      [] n = 3 -> "003" [] n = 9 -> "009" [] n = 998 -> "998" [] n = 999 -> "999"
      [] n = 1000 -> "1000" [] n = 1001 -> "1001" [] n = 1002 -> "1002"

C8_UnknownEnvironmentFatal ==
    (~env_exists /\ pc # "load_environment") =>
        /\ pc = "exited"
        /\ exit_status = 1
        /\ stderr.kind = "env_not_found"
        /\ env_config = EmptyDict
        /\ ~schema_loaded
        /\ ~dir_created
        /\ units = <<>>
        /\ writes = <<>>
        /\ DOMAIN files = {}

C8_Witness == ~env_exists /\ pc = "exited" /\ args.count = MaxCount

\* the verdict of validate_config on the unit at offset k
Verdict(k) == validate_config(UnitConfig(args, env_config, k), schema) = <<>>

\* C10: within one run validate_config returns an empty list for unit k iff it
\* does for unit 0; a validation failure is reported at unit #0 only, and no
\* unit fails validation after a file was written.
C10_VerdictSameForEveryUnit ==
    /\ \A u \in 1 .. Len(units) :
          (units[u].errors = <<>>) <=> (units[1].errors = <<>>)
    /\ (pc = "loop" /\ ~RaisesBeforeVerdict(args, env_config, 0)) =>
          \A k \in 0 .. args.count - 1 :
              /\ ~RaisesBeforeVerdict(args, env_config, k)
              /\ Verdict(k) <=> Verdict(0)
    /\ stderr.kind = "validation" => stderr.unit = 0
    /\ ~(writes # <<>> /\ SomeUnitFailedValidation)

C10_Witness ==
    /\ Len(units) = MaxCount
    /\ WorkstationSupplied
    /\ "instance_index" \in {RequiredOf(schema)[r] : r \in 1 .. Len(RequiredOf(schema))}
    /\ args.start_index = -1

-----------------------------------------------------------------------------
(* Direct calls of generate_single_config                                  *)

Pending == [status |-> "pending", value |-> EmptyDict]

Returned(v) == [status |-> "returned", value |-> v]

Raised == [status |-> "raised", value |-> EmptyDict]

\* main() does not run in the specifications of the pure functions
MainIdle ==
    /\ args = EmptyDict
    /\ env_exists = FALSE
    /\ pc = "call"
    /\ env_config = EmptyDict
    /\ schema_loaded = FALSE
    /\ schema = EmptyDict
    /\ dir_created = FALSE
    /\ i = 0
    /\ generated = 0
    /\ units = <<>>
    /\ writes = <<>>
    /\ files = EmptyDict
    /\ exit_status = -1
    /\ stderr = NoReport

\* environment documents: every optional field absent, null or set
SynthEnvDocs ==
    {WithField(WithField(WithField(WithField(WithField(WithField(BaseEnv,
        "enrollment_api_key", c), "ws_path", w), "location", l), "environment", e),
        "config_poll_interval_seconds", p), "features", f) :
        c \in {Absent, PyStr("sphr_dev_key")},
        w \in {Absent, None, PyStr("/ws/custom")},
        l \in {Absent, None, PyStr("fra-dc-2")},
        e \in {Absent, None, PyStr("staging")},
        p \in {Absent, PyInt(0), PyInt(60)},
        f \in {Absent, PyDict(EmptyDict), CustomFeatures}}

SynthCalls ==
    [fn : {"generate_single_config"},
     env : SynthEnvDocs,
     workstation_id : WorkstationIds,
     instance_index : {None, PyInt(0), PyInt(9)},
     location : {None, PyStr(""), PyStr("msk-office-1")},
     ldplayer_name : {None, PyStr("LD-1")}]

InitSynth ==
    /\ MainIdle
    /\ call \in SynthCalls
    /\ ret = Pending

CallGenerateSingleConfig ==
    /\ call.fn = "generate_single_config"
    /\ ret = Pending
    /\ ret' = IF GenerateRaises(call.env) THEN Raised
              ELSE Returned(generate_single_config(call.env, call.workstation_id,
                       call.instance_index, call.location, call.ldplayer_name))
    /\ UNCHANGED <<mainVars, call>>

NextSynth == CallGenerateSingleConfig

SpecSynth == InitSynth /\ [][NextSynth]_vars

\* C9: each optional field of the record is the environment document's value
\* when the document has the field and the fixed default only when it omits it;
\* the location is the device-level argument when one is supplied, otherwise
\* the document's location, otherwise unset.
C9_DefaultFilling ==
    ret.status = "returned" =>
        LET c == ret.value
            e == call.env
            fromEnv(k, default) == IF k \in DOMAIN e THEN e[k] ELSE default
        IN  /\ c["ws_path"] = fromEnv("ws_path", PyStr("/ws/android"))
            /\ c["environment"] = fromEnv("environment", PyStr("production"))
            /\ c["config_poll_interval_seconds"] =
                  fromEnv("config_poll_interval_seconds", PyInt(86400))
            /\ c["features"] =
                  fromEnv("features",
                          PyDict([telemetry_enabled |-> PyBool(TRUE),
                                  streaming_enabled |-> PyBool(TRUE),
                                  ota_enabled |-> PyBool(TRUE),
                                  auto_register |-> PyBool(TRUE)]))
            /\ c["location"] =
                  IF call.location # None /\ call.location # PyStr("")
                  THEN call.location
                  ELSE fromEnv("location", None)

C9_Witness ==
    /\ ret.status = "returned"
    /\ DOMAIN call.env = {"config_version", "server_url", "enrollment_api_key"}
    /\ call.location = None
    /\ ret.value["config_poll_interval_seconds"].n = 86400

-----------------------------------------------------------------------------
(* Direct calls of validate_config                                         *)

ValidateFields == {"server_url", "location", "enrollment_api_key", "foo"}

\* records: each field absent, null or set; the credential also empty,
\* well-formed, the bare prefix, shorter than the prefix, malformed, no string
ValidateRecords ==
    {WithField(WithField(WithField(EmptyDict, "server_url", u), "location", l),
               "enrollment_api_key", c) :
        u \in {Absent, None, PyStr("https://sphere.example")},
        l \in {Absent, None, PyStr("msk-office-1")},
        c \in {Absent, None, PyStr(""), PyStr("sphr_"), PyStr("sphr_dev_key"),
               PyStr("sphr"), PyStr("badkey"), PyStr("badkey_0123456789"),
               PyInt(5)}}

ValidateSchemas ==
    {EmptyDict} \cup
    {[required |-> r] : r \in UNION {[1 .. m -> ValidateFields] : m \in 0 .. MaxRequired}}

ValidateCalls ==
    [fn : {"validate_config"}, config : ValidateRecords, schema : ValidateSchemas]

InitValidate ==
    /\ MainIdle
    /\ call \in ValidateCalls
    /\ ret = Pending

CallValidateConfig ==
    /\ call.fn = "validate_config"
    /\ ret = Pending
    /\ ret' = IF ValidateRaises(call.config) THEN Raised
              ELSE Returned(validate_config(call.config, call.schema))
    /\ UNCHANGED <<mainVars, call>>

NextValidate == CallValidateConfig

SpecValidate == InitValidate /\ [][NextValidate]_vars

\* the credential of the record of the call, "" when the record has none
CallCredential ==
    IF "enrollment_api_key" \in DOMAIN call.config
    THEN call.config["enrollment_api_key"] ELSE PyStr("")

HasSphrPrefix(x) == Len(x) >= 5 /\ SubSeq(x, 1, 5) = "sphr_"

FormatErrorCount(errs) == Cardinality({e \in 1 .. Len(errs) : errs[e].kind = "format"})

\* C6 as first stated: a credential string that does not start with sphr_
\* yields exactly one credential-format error and one that does yields none.
C6_Original ==
    (ret.status = "returned" /\ CallCredential.t = "str") =>
        FormatErrorCount(ret.value) = IF HasSphrPrefix(CallCredential.s) THEN 0 ELSE 1

\* C6 as amended: a non-empty credential string that does not start with sphr_
\* yields exactly one credential-format error; an empty one, and one that
\* starts with sphr_, yields none; the required list plays no part.
C6_CredentialCheck ==
    (ret.status = "returned" /\ CallCredential.t = "str") =>
        FormatErrorCount(ret.value) =
            IF CallCredential.s = "" \/ HasSphrPrefix(CallCredential.s) THEN 0 ELSE 1

C6_Witness ==
    /\ ret.status = "returned"
    /\ CallCredential = PyStr("sphr")
    /\ Len(RequiredOf(call.schema)) = MaxRequired
    /\ FormatErrorCount(ret.value) = 1

\* the entries of the required list whose field is absent or null, in order
MissingRequired ==
    SelectSeq(RequiredOf(call.schema),
              LAMBDA f : f \notin DOMAIN call.config \/ call.config[f] = None)

CredentialAcceptable ==
    \/ CallCredential = None
    \/ CallCredential = PyStr("")
    \/ (CallCredential.t = "str" /\ HasSphrPrefix(CallCredential.s))

\* C7: one error per entry of the required list whose field is absent or null,
\* in list order, the credential-format error after them; the list is empty
\* exactly when no required field is absent or null and the credential is empty
\* or starts with sphr_; with the empty schema no required-field error.
C7_RequiredFieldCheck ==
    ret.status = "returned" =>
        /\ Len(ret.value) >= Len(MissingRequired)
        /\ \A m \in 1 .. Len(MissingRequired) :
              ret.value[m] = [kind |-> "required", arg |-> MissingRequired[m]]
        /\ \A m \in Len(MissingRequired) + 1 .. Len(ret.value) :
              ret.value[m].kind = "format"
        /\ Len(ret.value) <= Len(MissingRequired) + 1
        /\ (ret.value = <<>>) <=> (MissingRequired = <<>> /\ CredentialAcceptable)
        /\ call.schema = EmptyDict =>
              \A m \in 1 .. Len(ret.value) : ret.value[m].kind # "required"

C7_Witness ==
    /\ ret.status = "returned"
    /\ Len(MissingRequired) = MaxRequired
    /\ MissingRequired[1] # MissingRequired[2]
    /\ Len(ret.value) = MaxRequired + 1

====
